---- MODULE Spec2Model ----
(***************************************************************************)
(* Model of the Samsung s6e3ha8 MIPI-DSI panel driver                      *)
(* (drivers/gpu/drm/panel/panel-samsung-s6e3ha8.c).                        *)
(*                                                                         *)
(* The driver's four panel callbacks are modelled statement by statement:  *)
(* every call the driver makes into a collaborator (regulator, GPIO,       *)
(* delay, DSI link) is one step, pc is the position inside the running     *)
(* callback, and trace is the sequence of collaborator calls the running   *)
(* (or last finished) callback has made, as a test double would see them.  *)
(* The collaborators fail nondeterministically.                            *)
(***************************************************************************)
EXTENDS Integers, Sequences, FiniteSets, TLC

VARIABLES
    supply,      \* supply[i]: use count of regulator s6->supply[i]
    reset_gpio,  \* logical level of the panel's reset input (1 = asserted)
    waited_us,   \* microseconds waited since the last write to reset_gpio
    pc,          \* position inside the running callback, "idle" between calls
    op,          \* the callback that is running or has run last
    ret,         \* return value of the last finished callback
    trace,       \* collaborator calls made by the running / last callback
    fw,          \* panel state as tracked by the calling framework
    entry,       \* supplies, reset line and connector when the callback began
    history,     \* the last CycleLen finished callbacks, oldest first
    calls,       \* number of callbacks invoked so far
    samsung_s6e3ha8_mode,  \* the shared mode descriptor
    connector,   \* panel->connector: display_info and the probed mode list
    device       \* the DSI device: driver data, panel registry, link

\* The state the four panel callbacks never touch.
board == <<samsung_s6e3ha8_mode, connector, device>>

vars == <<supply, reset_gpio, waited_us, pc, op, ret, trace,
          fw, entry, history, calls, samsung_s6e3ha8_mode, connector, device>>

\* Bound on the number of callback invocations in one behaviour when the
\* callbacks are invoked in any order.
MaxCalls == 3

\* Bound on the number of callback invocations in one behaviour when the
\* callbacks are invoked in the documented order: two full cycles.
MaxOrderedCalls == 8

\* Bound on the number of probe and remove calls in one behaviour.
MaxProbeCalls == 4

\* udelay(10): reset pulse width in microseconds.
RESET_PULSE_US == 10

\* msleep(120): settle delay in milliseconds.
SETTLE_MS == 120

\* MIPI_DSI_DCS_TEAR_MODE_VBLANK, the argument of set_tear_on.
TEAR_MODE_VBLANK == 0

\* return -EINVAL in s6e3ha8_get_modes.
EINVAL == -22

\* return -ENOMEM in s6e3ha8_probe; also what a failed allocation reports.
ENOMEM == -12

\* Failure outcomes a collaborator may report: -EIO and -EPROBE_DEFER.
Errs == {-5, -517}

\* Outcomes of a fallible collaborator call.
Outcomes == {0} \cup Errs

Supplies == {0, 1}


Ops == {"prepare", "enable", "disable", "unprepare"}

\* Callbacks in one prepare, enable, disable, unprepare cycle: each once.
CycleLen == Cardinality(Ops)

\* static const struct drm_display_mode samsung_s6e3ha8_mode; the fields the
\* initializer leaves out are zero.
ModeConstant ==
    [clock |-> 342651,
     hdisplay |-> 1440,
     hsync_start |-> 1440 + 116,
     hsync_end |-> 1440 + 116 + 44,
     htotal |-> 1440 + 116 + 44 + 116,
     vdisplay |-> 2960,
     vsync_start |-> 2960 + 124,
     vsync_end |-> 2960 + 124 + 120,
     vtotal |-> 2960 + 124 + 120 + 124,
     vrefresh |-> 60,
     width_mm |-> 70,
     height_mm |-> 144,
     type |-> {},
     name |-> <<>>]

\* One collaborator call as seen by a test double.
Event(c, a, r) == [call |-> c, args |-> a, ret |-> r]

----------------------------------------------------------------------------
(* Collaborators *)

\* regulator_enable(s6->supply[i]) reporting r: the use count grows on success.
regulator_enable(i, r) ==
    /\ supply' = IF r = 0 THEN [supply EXCEPT ![i] = @ + 1] ELSE supply
    /\ trace' = Append(trace, Event("regulator_enable", <<i>>, r))

\* regulator_disable(s6->supply[i]) reporting r; the driver ignores r.
\* Disabling a supply whose use count is 0 is an unbalanced disable and fails.
regulator_disable(i, r) ==
    /\ (supply[i] = 0) => (r # 0)
    /\ supply' = IF r = 0 THEN [supply EXCEPT ![i] = @ - 1] ELSE supply
    /\ trace' = Append(trace, Event("regulator_disable", <<i>>, r))

\* gpiod_set_value_cansleep(s6->reset_gpio, v): on a board without the
\* optional reset line s6->reset_gpio is NULL and the call changes nothing.
gpiod_set_value(v) ==
    /\ reset_gpio' = IF "reset" \in device.acquired THEN v ELSE reset_gpio
    /\ waited_us' = IF "reset" \in device.acquired THEN 0 ELSE waited_us
    /\ trace' = Append(trace, Event("gpiod_set_value", <<v>>, 0))

\* udelay(us)
udelay(us) ==
    /\ waited_us' = waited_us + us
    /\ trace' = Append(trace, Event("udelay", <<us>>, 0))

\* msleep(ms)
msleep(ms) ==
    /\ waited_us' = waited_us + ms * 1000
    /\ trace' = Append(trace, Event("msleep", <<ms>>, 0))

\* A DCS command c with arguments a sent over the link, reporting r.
mipi_dsi_dcs(c, a, r) ==
    trace' = Append(trace, Event(c, a, r))

----------------------------------------------------------------------------
(* Framework bookkeeping *)

\* The framework state a successful callback leads to.
Target(o) ==
    CASE o = "prepare"   -> "Prepared"
      [] o = "enable"    -> "Enabled"
      [] o = "disable"   -> "Prepared"
      [] o = "unprepare" -> "Unpowered"

\* The callbacks the framework's documented order allows in state s.
Allowed(s) ==
    CASE s = "Unpowered" -> {"prepare"}
      [] s = "Prepared"  -> {"enable", "unprepare"}
      [] s = "Enabled"   -> {"disable"}

\* First position of callback o.
Entry(o) ==
    CASE o = "prepare"   -> "prepare_supply0"
      [] o = "enable"    -> "enable_display_on"
      [] o = "disable"   -> "disable_display_off"
      [] o = "unprepare" -> "unprepare_enter_sleep"
      [] o = "get_modes" -> "get_modes"
      [] o = "probe"     -> "probe_alloc"
      [] o = "remove"    -> "remove_detach"

\* Every collaborator call in t reported success.
AllOk(t) == \A k \in 1..Len(t) : t[k].ret = 0

\* Number of calls c on supply i in t; only the successful ones when okOnly.
Count(t, c, i, okOnly) ==
    Cardinality({k \in 1..Len(t) :
        /\ t[k].call = c
        /\ t[k].args = <<i>>
        /\ okOnly => t[k].ret = 0})

\* Both supplies off and the reset line asserted.
Unpowered(s, g) == (\A i \in Supplies : s[i] = 0) /\ g = 1

\* The last n elements of sequence q.
LastN(q, n) == IF Len(q) <= n THEN q ELSE SubSeq(q, Len(q) - n + 1, Len(q))

\* The callback returns r to the framework.
Return(r) ==
    /\ pc' = "idle"
    /\ ret' = r
    /\ fw' = IF r = 0 THEN Target(op) ELSE fw
    /\ history' = LastN(Append(history,
                     [op |-> op, ok |-> (r = 0 /\ AllOk(trace')),
                      unpowered |-> Unpowered(entry.supply, entry.reset_gpio),
                      enabled |-> [i \in Supplies |->
                          Count(trace', "regulator_enable", i, TRUE)],
                      disabled |-> [i \in Supplies |->
                          Count(trace', "regulator_disable", i, FALSE)]]),
                   CycleLen)

\* The callback goes on to position p.
Goto(p) ==
    /\ pc' = p
    /\ UNCHANGED <<ret, fw, history>>

\* The framework invokes callback o, at most n callbacks in all.
Call(o, n) ==
    /\ pc = "idle"
    /\ calls < n
    /\ calls' = calls + 1
    /\ op' = o
    /\ pc' = Entry(o)
    /\ trace' = <<>>
    /\ entry' = [supply |-> supply, reset_gpio |-> reset_gpio,
                 connector |-> connector]
    /\ UNCHANGED <<supply, reset_gpio, waited_us, ret, fw, history, board>>

----------------------------------------------------------------------------
(* s6e3ha8_prepare *)

\* Variant of prepare_supply0 that does not check ret.
prepare_supply0_unchecked ==
    /\ pc = "prepare_supply0"
    /\ \E r \in Outcomes :
         /\ regulator_enable(0, r)
         /\ Goto("prepare_supply1")
    /\ UNCHANGED <<reset_gpio, waited_us, op, entry, calls, board>>

\* ret = regulator_enable(s6->supply[0]); if (ret) return ret;
prepare_supply0 ==
    /\ pc = "prepare_supply0"
    /\ \E r \in Outcomes :
         /\ regulator_enable(0, r)
         /\ IF r # 0 THEN Return(r) ELSE Goto("prepare_supply1")
    /\ UNCHANGED <<reset_gpio, waited_us, op, entry, calls, board>>

\* Variant of prepare_supply1 that does not check ret and goes on to the reset.
prepare_supply1_unchecked ==
    /\ pc = "prepare_supply1"
    /\ \E r \in Outcomes :
         /\ regulator_enable(1, r)
         /\ Goto("prepare_reset_assert")
    /\ UNCHANGED <<reset_gpio, waited_us, op, entry, calls, board>>

\* Variant of prepare_supply1 that rolls supply 0 back when supply 1 fails.
prepare_supply1_rollback ==
    /\ pc = "prepare_supply1"
    /\ \E r \in Outcomes :
         /\ supply' = IF r = 0 THEN [supply EXCEPT ![1] = @ + 1]
                                ELSE [supply EXCEPT ![0] = @ - 1]
         /\ trace' = IF r = 0
                THEN Append(trace, Event("regulator_enable", <<1>>, r))
                ELSE trace \o <<Event("regulator_enable", <<1>>, r),
                                Event("regulator_disable", <<0>>, 0)>>
         /\ IF r # 0 THEN Return(r) ELSE Goto("prepare_reset_assert")
    /\ UNCHANGED <<reset_gpio, waited_us, op, entry, calls, board>>

\* ret = regulator_enable(s6->supply[1]); if (ret) return ret;
prepare_supply1 ==
    /\ pc = "prepare_supply1"
    /\ \E r \in Outcomes :
         /\ regulator_enable(1, r)
         /\ IF r # 0 THEN Return(r) ELSE Goto("prepare_reset_assert")
    /\ UNCHANGED <<reset_gpio, waited_us, op, entry, calls, board>>

\* gpiod_set_value_cansleep(s6->reset_gpio, 1);
prepare_reset_assert ==
    /\ pc = "prepare_reset_assert"
    /\ gpiod_set_value(1)
    /\ Goto("prepare_udelay")
    /\ UNCHANGED <<supply, op, entry, calls, board>>

\* udelay(10);
prepare_udelay ==
    /\ pc = "prepare_udelay"
    /\ udelay(RESET_PULSE_US)
    /\ Goto("prepare_reset_deassert")
    /\ UNCHANGED <<supply, reset_gpio, op, entry, calls, board>>

\* Variant of prepare_reset_deassert that goes on without the settle delay.
prepare_reset_deassert_no_settle ==
    /\ pc = "prepare_reset_deassert"
    /\ gpiod_set_value(0)
    /\ Goto("prepare_set_tear_on")
    /\ UNCHANGED <<supply, op, entry, calls, board>>

\* gpiod_set_value_cansleep(s6->reset_gpio, 0);
prepare_reset_deassert ==
    /\ pc = "prepare_reset_deassert"
    /\ gpiod_set_value(0)
    /\ Goto("prepare_msleep")
    /\ UNCHANGED <<supply, op, entry, calls, board>>

\* Variant of prepare_msleep that sleeps a tenth of the settle delay.
prepare_msleep_short ==
    /\ pc = "prepare_msleep"
    /\ msleep(SETTLE_MS \div 10)
    /\ Goto("prepare_set_tear_on")
    /\ UNCHANGED <<supply, reset_gpio, op, entry, calls, board>>

\* msleep(120);
prepare_msleep ==
    /\ pc = "prepare_msleep"
    /\ msleep(SETTLE_MS)
    /\ Goto("prepare_set_tear_on")
    /\ UNCHANGED <<supply, reset_gpio, op, entry, calls, board>>

\* Variant of prepare_set_tear_on that does not check ret.
prepare_set_tear_on_unchecked ==
    /\ pc = "prepare_set_tear_on"
    /\ \E r \in Outcomes :
         /\ mipi_dsi_dcs("set_tear_on", <<TEAR_MODE_VBLANK>>, r)
         /\ Goto("prepare_exit_sleep")
    /\ UNCHANGED <<supply, reset_gpio, waited_us, op, entry, calls, board>>

\* ret = mipi_dsi_dcs_set_tear_on(dsi, MIPI_DSI_DCS_TEAR_MODE_VBLANK);
\* if (ret) return ret;
prepare_set_tear_on ==
    /\ pc = "prepare_set_tear_on"
    /\ \E r \in Outcomes :
         /\ mipi_dsi_dcs("set_tear_on", <<TEAR_MODE_VBLANK>>, r)
         /\ IF r # 0 THEN Return(r) ELSE Goto("prepare_exit_sleep")
    /\ UNCHANGED <<supply, reset_gpio, waited_us, op, entry, calls, board>>

\* Variant of prepare_exit_sleep that disables both supplies again when the
\* command fails.
prepare_exit_sleep_rollback ==
    /\ pc = "prepare_exit_sleep"
    /\ \E r \in Outcomes :
         /\ supply' = IF r = 0 THEN supply
                                ELSE [i \in Supplies |-> supply[i] - 1]
         /\ trace' = IF r = 0
                THEN Append(trace, Event("exit_sleep_mode", <<>>, r))
                ELSE trace \o <<Event("exit_sleep_mode", <<>>, r),
                                Event("regulator_disable", <<1>>, 0),
                                Event("regulator_disable", <<0>>, 0)>>
         /\ IF r # 0 THEN Return(r) ELSE Return(0)
    /\ UNCHANGED <<reset_gpio, waited_us, op, entry, calls, board>>

\* ret = mipi_dsi_dcs_exit_sleep_mode(dsi); if (ret) return ret; return 0;
prepare_exit_sleep ==
    /\ pc = "prepare_exit_sleep"
    /\ \E r \in Outcomes :
         /\ mipi_dsi_dcs("exit_sleep_mode", <<>>, r)
         /\ IF r # 0 THEN Return(r) ELSE Return(0)
    /\ UNCHANGED <<supply, reset_gpio, waited_us, op, entry, calls, board>>

s6e3ha8_prepare ==
    \/ prepare_supply0
    \/ prepare_supply1
    \/ prepare_reset_assert
    \/ prepare_udelay
    \/ prepare_reset_deassert
    \/ prepare_msleep
    \/ prepare_set_tear_on
    \/ prepare_exit_sleep

----------------------------------------------------------------------------
(* s6e3ha8_unprepare *)

\* Variant of unprepare_enter_sleep that powers down even when the command
\* failed.
unprepare_enter_sleep_unchecked ==
    /\ pc = "unprepare_enter_sleep"
    /\ \E r \in Outcomes :
         /\ mipi_dsi_dcs("enter_sleep_mode", <<>>, r)
         /\ Goto("unprepare_reset_assert")
    /\ UNCHANGED <<supply, reset_gpio, waited_us, op, entry, calls, board>>

\* Variant of unprepare_enter_sleep that asserts reset before it returns the
\* failure of the command.
unprepare_enter_sleep_reset_on_error ==
    /\ pc = "unprepare_enter_sleep"
    /\ \E r \in Outcomes :
         /\ IF r # 0
              THEN /\ reset_gpio' = 1
                   /\ waited_us' = 0
                   /\ trace' = trace \o <<Event("enter_sleep_mode", <<>>, r),
                                           Event("gpiod_set_value", <<1>>, 0)>>
                   /\ Return(r)
              ELSE /\ mipi_dsi_dcs("enter_sleep_mode", <<>>, r)
                   /\ UNCHANGED <<reset_gpio, waited_us>>
                   /\ Goto("unprepare_reset_assert")
    /\ UNCHANGED <<supply, op, entry, calls, board>>

\* ret = mipi_dsi_dcs_enter_sleep_mode(dsi); if (ret) return ret;
unprepare_enter_sleep ==
    /\ pc = "unprepare_enter_sleep"
    /\ \E r \in Outcomes :
         /\ mipi_dsi_dcs("enter_sleep_mode", <<>>, r)
         /\ IF r # 0 THEN Return(r) ELSE Goto("unprepare_reset_assert")
    /\ UNCHANGED <<supply, reset_gpio, waited_us, op, entry, calls, board>>

\* Variant of unprepare_reset_assert that writes 0 to the reset line.
unprepare_reset_assert_low ==
    /\ pc = "unprepare_reset_assert"
    /\ gpiod_set_value(0)
    /\ Goto("unprepare_disable_first")
    /\ UNCHANGED <<supply, op, entry, calls, board>>

\* gpiod_set_value_cansleep(s6->reset_gpio, 1);
unprepare_reset_assert ==
    /\ pc = "unprepare_reset_assert"
    /\ gpiod_set_value(1)
    /\ Goto("unprepare_disable_first")
    /\ UNCHANGED <<supply, op, entry, calls, board>>

\* Variant of unprepare_disable_first that returns the failure of the disable.
unprepare_disable_first_checked ==
    /\ pc = "unprepare_disable_first"
    /\ \E r \in Outcomes :
         /\ regulator_disable(0, r)
         /\ IF r # 0 THEN Return(r) ELSE Goto("unprepare_disable_second")
    /\ UNCHANGED <<reset_gpio, waited_us, op, entry, calls, board>>

\* regulator_disable(s6->supply[0]);
unprepare_disable_first ==
    /\ pc = "unprepare_disable_first"
    /\ \E r \in Outcomes : regulator_disable(0, r)
    /\ Goto("unprepare_disable_second")
    /\ UNCHANGED <<reset_gpio, waited_us, op, entry, calls, board>>

\* Variant of unprepare_disable_second that returns without the disable.
unprepare_disable_second_missing ==
    /\ pc = "unprepare_disable_second"
    /\ UNCHANGED <<supply, reset_gpio, waited_us, trace, op, entry, calls, board>>
    /\ Return(0)

\* regulator_disable(s6->supply[1]); return 0;
unprepare_disable_second ==
    /\ pc = "unprepare_disable_second"
    /\ \E r \in Outcomes : regulator_disable(1, r)
    /\ Return(0)
    /\ UNCHANGED <<reset_gpio, waited_us, op, entry, calls, board>>

s6e3ha8_unprepare ==
    \/ unprepare_enter_sleep
    \/ unprepare_reset_assert
    \/ unprepare_disable_first
    \/ unprepare_disable_second

----------------------------------------------------------------------------
(* s6e3ha8_enable and s6e3ha8_disable *)

\* Variant of s6e3ha8_enable that sends the command once more when the link
\* asks to retry later.
s6e3ha8_enable_retry ==
    /\ pc = "enable_display_on"
    /\ \E r \in Outcomes : \E r2 \in Outcomes :
         IF r = -517
         THEN /\ trace' = trace \o <<Event("set_display_on", <<>>, r),
                                      Event("set_display_on", <<>>, r2)>>
              /\ Return(r2)
         ELSE /\ mipi_dsi_dcs("set_display_on", <<>>, r)
              /\ Return(r)
    /\ UNCHANGED <<supply, reset_gpio, waited_us, op, entry, calls, board>>

\* ret = mipi_dsi_dcs_set_display_on(dsi); if (ret) return ret; return 0;
s6e3ha8_enable ==
    /\ pc = "enable_display_on"
    /\ \E r \in Outcomes :
         /\ mipi_dsi_dcs("set_display_on", <<>>, r)
         /\ IF r # 0 THEN Return(r) ELSE Return(0)
    /\ UNCHANGED <<supply, reset_gpio, waited_us, op, entry, calls, board>>

\* Variant of s6e3ha8_disable that returns 0 whatever the link reported.
s6e3ha8_disable_swallow ==
    /\ pc = "disable_display_off"
    /\ \E r \in Outcomes :
         /\ mipi_dsi_dcs("set_display_off", <<>>, r)
         /\ Return(0)
    /\ UNCHANGED <<supply, reset_gpio, waited_us, op, entry, calls, board>>

\* ret = mipi_dsi_dcs_set_display_off(dsi); if (ret) return ret; return 0;
s6e3ha8_disable ==
    /\ pc = "disable_display_off"
    /\ \E r \in Outcomes :
         /\ mipi_dsi_dcs("set_display_off", <<>>, r)
         /\ IF r # 0 THEN Return(r) ELSE Return(0)
    /\ UNCHANGED <<supply, reset_gpio, waited_us, op, entry, calls, board>>

----------------------------------------------------------------------------
(* s6e3ha8_get_modes *)

\* drm_mode_duplicate: a new descriptor with the fields of m.
drm_mode_duplicate(m) == [f \in DOMAIN m |-> m[f]]

\* drm_mode_set_name: the name becomes "<hdisplay>x<vdisplay>".
drm_mode_set_name(m) == [m EXCEPT !.name = <<m.hdisplay, m.vdisplay>>]

\* Variant of s6e3ha8_get_modes that sets the type on the shared descriptor
\* and duplicates it afterwards.
s6e3ha8_get_modes_marks_shared ==
    /\ pc = "get_modes"
    /\ \E duplicated \in BOOLEAN :
         LET shared == [samsung_s6e3ha8_mode EXCEPT
                            !.type = {"DRIVER", "PREFERRED"}]
             mode == drm_mode_set_name(drm_mode_duplicate(shared))
         IN  /\ samsung_s6e3ha8_mode' = shared
             /\ trace' = Append(trace, Event("drm_mode_duplicate", <<>>,
                                IF duplicated THEN 0 ELSE ENOMEM))
             /\ IF ~duplicated
                  THEN /\ connector' = [connector EXCEPT
                                            !.name = "Samsung S6D16D0"]
                       /\ ret' = EINVAL
                  ELSE /\ connector' = [connector EXCEPT
                              !.name = "Samsung S6D16D0",
                              !.width_mm = mode.width_mm,
                              !.height_mm = mode.height_mm,
                              !.probed_modes = Append(@, mode)]
                       /\ ret' = 1
    /\ pc' = "idle"
    /\ UNCHANGED <<supply, reset_gpio, waited_us, op, entry, calls, fw,
                   history, device>>

\* Variant of s6e3ha8_get_modes that fills display_info from the shared
\* descriptor before it duplicates it, and returns 0 when that fails.
s6e3ha8_get_modes_early_info ==
    /\ pc = "get_modes"
    /\ \E duplicated \in BOOLEAN :
         LET copy == drm_mode_set_name(drm_mode_duplicate(samsung_s6e3ha8_mode))
             mode == [copy EXCEPT !.type = {"DRIVER", "PREFERRED"}]
         IN  /\ trace' = Append(trace, Event("drm_mode_duplicate", <<>>,
                                IF duplicated THEN 0 ELSE ENOMEM))
             /\ IF ~duplicated
                  THEN /\ connector' = [connector EXCEPT
                              !.name = "Samsung S6D16D0",
                              !.width_mm = samsung_s6e3ha8_mode.width_mm,
                              !.height_mm = samsung_s6e3ha8_mode.height_mm]
                       /\ ret' = 0
                  ELSE /\ connector' = [connector EXCEPT
                              !.name = "Samsung S6D16D0",
                              !.width_mm = mode.width_mm,
                              !.height_mm = mode.height_mm,
                              !.probed_modes = Append(@, mode)]
                       /\ ret' = 1
    /\ pc' = "idle"
    /\ UNCHANGED <<supply, reset_gpio, waited_us, op, entry, calls, fw,
                   history, samsung_s6e3ha8_mode, device>>

\* strncpy(connector->display_info.name, ...);
\* mode = drm_mode_duplicate(panel->drm, &samsung_s6e3ha8_mode);
\* if (!mode) return -EINVAL;
\* drm_mode_set_name(mode); mode->type = DRIVER | PREFERRED;
\* connector->display_info.width_mm / height_mm = mode->width_mm / height_mm;
\* drm_mode_probed_add(connector, mode); return 1;
s6e3ha8_get_modes ==
    /\ pc = "get_modes"
    /\ \E duplicated \in BOOLEAN :
         LET copy == drm_mode_set_name(drm_mode_duplicate(samsung_s6e3ha8_mode))
             mode == [copy EXCEPT !.type = {"DRIVER", "PREFERRED"}]
         IN  /\ trace' = Append(trace, Event("drm_mode_duplicate", <<>>,
                                IF duplicated THEN 0 ELSE ENOMEM))
             /\ IF ~duplicated
                  THEN /\ connector' = [connector EXCEPT
                                            !.name = "Samsung S6D16D0"]
                       /\ ret' = EINVAL
                  ELSE /\ connector' = [connector EXCEPT
                              !.name = "Samsung S6D16D0",
                              !.width_mm = mode.width_mm,
                              !.height_mm = mode.height_mm,
                              !.probed_modes = Append(@, mode)]
                       /\ ret' = 1
    /\ pc' = "idle"
    /\ UNCHANGED <<supply, reset_gpio, waited_us, op, entry, calls, fw,
                   history, samsung_s6e3ha8_mode, device>>

----------------------------------------------------------------------------
(* s6e3ha8_probe and s6e3ha8_remove *)

\* The resources probe acquires, all of them device-managed.
Resources == {"vddi", "vci", "reset"}

\* probe returns r: the driver is bound on success; on failure the driver
\* core releases the device-managed resources.
ProbeReturn(r) ==
    /\ pc' = "idle"
    /\ ret' = r
    /\ UNCHANGED <<fw, history>>

\* The device record after probe has returned r, d being the record the
\* last statement left.
Bind(d, r) ==
    IF r = 0 THEN [d EXCEPT !.bound = TRUE]
             ELSE [d EXCEPT !.bound = FALSE, !.acquired = {}]

\* s6 = devm_kzalloc(...); if (!s6) return -ENOMEM;
\* mipi_dsi_set_drvdata(dsi, s6); dsi->lanes, format, mode_flags = ...
probe_alloc ==
    /\ pc = "probe_alloc"
    /\ \E allocated \in BOOLEAN :
         /\ trace' = Append(trace, Event("devm_kzalloc", <<>>,
                            IF allocated THEN 0 ELSE ENOMEM))
         /\ IF allocated
              THEN /\ pc' = "probe_supply0"
                   /\ UNCHANGED <<ret, fw, history, device>>
              ELSE /\ ProbeReturn(ENOMEM)
                   /\ device' = Bind(device, ENOMEM)
    /\ UNCHANGED <<supply, reset_gpio, waited_us, op, entry, calls,
                   samsung_s6e3ha8_mode, connector>>

\* s6->supply[0] = devm_regulator_get(dev, "vddi");
\* if (IS_ERR(s6->supply[0])) return PTR_ERR(s6->supply[0]);
probe_supply0 ==
    /\ pc = "probe_supply0"
    /\ \E r \in Outcomes :
         /\ trace' = Append(trace, Event("devm_regulator_get", <<0>>, r))
         /\ IF r # 0
              THEN /\ ProbeReturn(r)
                   /\ device' = Bind(device, r)
              ELSE /\ pc' = "probe_supply1"
                   /\ device' = [device EXCEPT !.acquired = @ \cup {"vddi"}]
                   /\ UNCHANGED <<ret, fw, history>>
    /\ UNCHANGED <<supply, reset_gpio, waited_us, op, entry, calls,
                   samsung_s6e3ha8_mode, connector>>

\* s6->supply[1] = devm_regulator_get(dev, "vci");
\* if (IS_ERR(s6->supply[1])) return PTR_ERR(s6->supply[1]);
probe_supply1 ==
    /\ pc = "probe_supply1"
    /\ \E r \in Outcomes :
         /\ trace' = Append(trace, Event("devm_regulator_get", <<1>>, r))
         /\ IF r # 0
              THEN /\ ProbeReturn(r)
                   /\ device' = Bind(device, r)
              ELSE /\ pc' = "probe_reset"
                   /\ device' = [device EXCEPT !.acquired = @ \cup {"vci"}]
                   /\ UNCHANGED <<ret, fw, history>>
    /\ UNCHANGED <<supply, reset_gpio, waited_us, op, entry, calls,
                   samsung_s6e3ha8_mode, connector>>

\* s6->reset_gpio = devm_gpiod_get_optional(dev, "reset", GPIOD_OUT_HIGH);
\* if (IS_ERR(s6->reset_gpio)) return PTR_ERR(s6->reset_gpio);
\* A line that is present is driven to its asserted level when it is
\* acquired; for an absent line the getter returns NULL, which is no error,
\* and probe goes on without it.
probe_reset ==
    /\ pc = "probe_reset"
    /\ \E r \in Outcomes : \E present \in BOOLEAN :
         /\ trace' = Append(trace, Event("devm_gpiod_get_optional", <<>>, r))
         /\ (r # 0) => ~present
         /\ IF r # 0
              THEN /\ ProbeReturn(r)
                   /\ device' = Bind(device, r)
                   /\ UNCHANGED <<reset_gpio, waited_us>>
              ELSE /\ pc' = "probe_panel_add"
                   /\ UNCHANGED <<ret, fw, history>>
                   /\ IF present
                        THEN /\ device' = [device EXCEPT
                                               !.acquired = @ \cup {"reset"}]
                             /\ reset_gpio' = 1
                             /\ waited_us' = 0
                        ELSE UNCHANGED <<device, reset_gpio, waited_us>>
    /\ UNCHANGED <<supply, op, entry, calls, samsung_s6e3ha8_mode, connector>>

\* drm_panel_init(&s6->panel); ...
\* ret = drm_panel_add(&s6->panel); if (ret < 0) return ret;
probe_panel_add ==
    /\ pc = "probe_panel_add"
    /\ \E r \in Outcomes :
         /\ trace' = Append(trace, Event("drm_panel_add", <<>>, r))
         /\ IF r < 0
              THEN /\ ProbeReturn(r)
                   /\ device' = Bind(device, r)
              ELSE /\ pc' = "probe_attach"
                   /\ device' = [device EXCEPT !.registered = TRUE]
                   /\ UNCHANGED <<ret, fw, history>>
    /\ UNCHANGED <<supply, reset_gpio, waited_us, op, entry, calls,
                   samsung_s6e3ha8_mode, connector>>

\* ret = mipi_dsi_attach(dsi);
\* if (ret < 0) drm_panel_remove(&s6->panel);
\* return ret;
probe_attach ==
    /\ pc = "probe_attach"
    /\ \E r \in Outcomes :
         /\ trace' = IF r < 0
                THEN trace \o <<Event("mipi_dsi_attach", <<>>, r),
                                Event("drm_panel_remove", <<>>, 0)>>
                ELSE Append(trace, Event("mipi_dsi_attach", <<>>, r))
         /\ device' = Bind(IF r < 0 THEN [device EXCEPT !.registered = FALSE]
                                    ELSE [device EXCEPT !.attached = TRUE], r)
         /\ ProbeReturn(r)
    /\ UNCHANGED <<supply, reset_gpio, waited_us, op, entry, calls,
                   samsung_s6e3ha8_mode, connector>>

s6e3ha8_probe ==
    \/ probe_alloc
    \/ probe_supply0
    \/ probe_supply1
    \/ probe_reset
    \/ probe_panel_add
    \/ probe_attach

\* mipi_dsi_detach(dsi) reporting r: a detach that fails leaves the link
\* attached.
mipi_dsi_detach(r) ==
    /\ trace' = Append(trace, Event("mipi_dsi_detach", <<>>, r))
    /\ device' = IF r = 0 THEN [device EXCEPT !.attached = FALSE] ELSE device

\* mipi_dsi_detach(dsi); the result is not looked at.
remove_detach ==
    /\ pc = "remove_detach"
    /\ \E r \in Outcomes : mipi_dsi_detach(r)
    /\ pc' = "remove_panel_remove"
    /\ UNCHANGED <<supply, reset_gpio, waited_us, op, ret, entry, calls, fw,
                   history, samsung_s6e3ha8_mode, connector>>

\* drm_panel_remove(&s6->panel); return 0;
\* The driver core then releases the device-managed resources.
remove_panel_remove ==
    /\ pc = "remove_panel_remove"
    /\ trace' = Append(trace, Event("drm_panel_remove", <<>>, 0))
    /\ device' = [device EXCEPT !.registered = FALSE, !.bound = FALSE,
                                !.acquired = {}]
    /\ ProbeReturn(0)
    /\ UNCHANGED <<supply, reset_gpio, waited_us, op, entry, calls,
                   samsung_s6e3ha8_mode, connector>>

s6e3ha8_remove ==
    \/ remove_detach
    \/ remove_panel_remove

----------------------------------------------------------------------------
(* Specifications *)

\* The state after a successful probe: both supplies acquired and off, and
\* either the reset line acquired with GPIOD_OUT_HIGH (asserted) or, on a
\* board without the optional line, no line and the input at either level;
\* no callback run yet.
Init ==
    /\ supply = [i \in Supplies |-> 0]
    /\ \E present \in BOOLEAN : \E level \in {0, 1} :
           /\ present => level = 1
           /\ reset_gpio = level
           /\ device = [bound |-> TRUE, registered |-> TRUE,
                        attached |-> TRUE,
                        acquired |-> IF present THEN {"vddi", "vci", "reset"}
                                               ELSE {"vddi", "vci"}]
    /\ waited_us = 0
    /\ pc = "idle"
    /\ op = "none"
    /\ ret = 0
    /\ trace = <<>>
    /\ fw = "Unpowered"
    /\ history = <<>>
    /\ calls = 0
    /\ samsung_s6e3ha8_mode = ModeConstant
    /\ connector = [name |-> "", width_mm |-> 0, height_mm |-> 0,
                    probed_modes |-> <<>>]
    /\ entry = [supply |-> supply, reset_gpio |-> reset_gpio,
                connector |-> connector]

\* The driver does not check the call order: any callback may be invoked.
CallAny == \E o \in Ops : Call(o, MaxCalls)

\* The framework asks for the modes, whatever the state of the panel.
CallGetModes == Call("get_modes", MaxCalls)

\* The framework invokes the callbacks in the documented order, a callback
\* only after its predecessor succeeded.
CallInOrder == \E o \in Allowed(fw) : Call(o, MaxOrderedCalls)

Next ==
    \/ CallAny
    \/ CallGetModes
    \/ s6e3ha8_prepare
    \/ s6e3ha8_unprepare
    \/ s6e3ha8_enable
    \/ s6e3ha8_disable
    \/ s6e3ha8_get_modes

Spec == Init /\ [][Next]_vars

\* The device before the driver is bound to it: nothing acquired, the panel
\* not registered, the link not attached, the reset line at either level.
InitProbe ==
    /\ supply = [i \in Supplies |-> 0]
    /\ reset_gpio \in {0, 1}
    /\ waited_us = 0
    /\ pc = "idle"
    /\ op = "none"
    /\ ret = 0
    /\ trace = <<>>
    /\ fw = "Unpowered"
    /\ history = <<>>
    /\ calls = 0
    /\ samsung_s6e3ha8_mode = ModeConstant
    /\ connector = [name |-> "", width_mm |-> 0, height_mm |-> 0,
                    probed_modes |-> <<>>]
    /\ device = [bound |-> FALSE, registered |-> FALSE, attached |-> FALSE,
                 acquired |-> {}]
    /\ entry = [supply |-> supply, reset_gpio |-> reset_gpio,
                connector |-> connector]

\* The driver core probes a device no driver is bound to.
CallProbe == ~device.bound /\ Call("probe", MaxProbeCalls)

\* The driver core removes a device the driver is bound to.
CallRemove == device.bound /\ Call("remove", MaxProbeCalls)

NextProbe ==
    \/ CallProbe
    \/ CallRemove
    \/ s6e3ha8_probe
    \/ s6e3ha8_remove

SpecProbe == InitProbe /\ [][NextProbe]_vars

NextOrdered ==
    \/ CallInOrder
    \/ s6e3ha8_prepare
    \/ s6e3ha8_unprepare
    \/ s6e3ha8_enable
    \/ s6e3ha8_disable

\* The documented order starts from the Unpowered state.
InitOrdered == Init /\ Unpowered(supply, reset_gpio)

SpecOrdered == InitOrdered /\ [][NextOrdered]_vars

TypeOK ==
    /\ supply \in [Supplies -> Nat]
    /\ reset_gpio \in {0, 1}
    /\ waited_us \in Nat
    /\ op \in Ops \cup {"none", "get_modes", "probe", "remove"}
    /\ ret \in Outcomes \cup {1, EINVAL, ENOMEM}
    /\ DOMAIN samsung_s6e3ha8_mode = DOMAIN ModeConstant
    /\ samsung_s6e3ha8_mode.clock \in Nat
    /\ connector.width_mm \in {0, ModeConstant.width_mm}
    /\ connector.height_mm \in {0, ModeConstant.height_mm}
    /\ device.bound \in BOOLEAN
    /\ device.registered \in BOOLEAN
    /\ device.attached \in BOOLEAN
    /\ device.acquired \subseteq Resources
    /\ fw \in {"Unpowered", "Prepared", "Enabled"}
    /\ calls \in Nat
    /\ Len(history) <= CycleLen
    /\ entry.supply \in [Supplies -> Nat]

----------------------------------------------------------------------------
(* Observations on the trace of the running or last finished callback *)

\* Event k of the trace is call c with arguments a.
Is(k, c, a) == trace[k].call = c /\ trace[k].args = a

\* Event k of the trace is call c with arguments a and it succeeded.
IsOk(k, c, a) == Is(k, c, a) /\ trace[k].ret = 0

\* Event k of the trace is call c with arguments a and it failed.
IsFail(k, c, a) == Is(k, c, a) /\ trace[k].ret # 0

Positions == 1..Len(trace)

\* The calls that write the reset line, wait, or send a DCS command.
ResetWaitDcsCalls ==
    {"gpiod_set_value", "udelay", "msleep", "set_tear_on", "exit_sleep_mode",
     "enter_sleep_mode", "set_display_on", "set_display_off"}

\* The callback named o has returned and nothing was called since.
Finished(o) == pc = "idle" /\ op = o

----------------------------------------------------------------------------
(* Claims *)

\* C1: in every execution of Prepare, whatever steps fail, the enable of
\* supply 0 is attempted strictly before the enable of supply 1, and the reset
\* line is de-asserted only after both supply enables have succeeded.
C1_PrepareOrder ==
    op = "prepare" =>
        \A k \in Positions :
            /\ Is(k, "regulator_enable", <<1>>) =>
                   \E j \in 1..(k - 1) : Is(j, "regulator_enable", <<0>>)
            /\ Is(k, "gpiod_set_value", <<0>>) =>
                   \E i \in 1..(k - 1) : \E j \in (i + 1)..(k - 1) :
                       /\ IsOk(i, "regulator_enable", <<0>>)
                       /\ IsOk(j, "regulator_enable", <<1>>)

\* C1 witness: a Prepare that de-asserted reset and then failed.
C1_Witness ==
    /\ Finished("prepare")
    /\ ret # 0
    /\ \E k \in Positions : Is(k, "gpiod_set_value", <<0>>)
    /\ \E k \in Positions : Is(k, "regulator_enable", <<1>>)

\* C2: a Prepare that starts with both supplies off and the reset line asserted
\* and in which every external step succeeds makes, after the two supply
\* enables, exactly: one reset assert, a wait of at least 10 us, one reset
\* de-assert, a wait of at least 120 ms, set-tear-on(vblank), exit-sleep; and
\* it returns success.
C2_PrepareTrace ==
    (/\ Finished("prepare")
     /\ Unpowered(entry.supply, entry.reset_gpio)
     /\ AllOk(trace)) =>
        /\ ret = 0
        /\ Len(trace) = 8
        /\ IsOk(1, "regulator_enable", <<0>>)
        /\ IsOk(2, "regulator_enable", <<1>>)
        /\ Is(3, "gpiod_set_value", <<1>>)
        /\ trace[4].call = "udelay" /\ trace[4].args[1] >= 10
        /\ Is(5, "gpiod_set_value", <<0>>)
        /\ trace[6].call = "msleep" /\ trace[6].args[1] >= 120
        /\ Is(7, "set_tear_on", <<TEAR_MODE_VBLANK>>)
        /\ Is(8, "exit_sleep_mode", <<>>)

\* C2 witness: a fully successful Prepare from the unpowered state.
C2_Witness ==
    /\ Finished("prepare")
    /\ Unpowered(entry.supply, entry.reset_gpio)
    /\ AllOk(trace)
    /\ ret = 0
    /\ Len(trace) = 8

\* C3: if enabling supply 1 fails during Prepare, Prepare returns that
\* failure, supply 0 is left enabled (no rollback), the reset line is not
\* written, no wait is performed and no DCS command is sent.
C3_Supply1Failure ==
    \A k \in Positions :
        (Finished("prepare") /\ IsFail(k, "regulator_enable", <<1>>)) =>
            /\ ret = trace[k].ret
            /\ supply[0] = entry.supply[0] + 1
            /\ supply[1] = entry.supply[1]
            /\ reset_gpio = entry.reset_gpio
            /\ \A j \in Positions :
                   /\ trace[j].call \notin ResetWaitDcsCalls
                   /\ trace[j].call # "regulator_disable"

\* C3 witness: a Prepare that failed at supply 1 with supply 0 enabled.
C3_Witness ==
    /\ Finished("prepare")
    /\ \E k \in Positions : IsFail(k, "regulator_enable", <<1>>)
    /\ ret = -517
    /\ supply[0] > 0

\* C4: in every execution of Unprepare the enter-sleep command is attempted
\* before the reset line is asserted and before either supply is disabled, and
\* no supply is disabled unless enter-sleep succeeded earlier in that same
\* invocation.
C4_UnprepareOrder ==
    op = "unprepare" =>
        \A k \in Positions :
            /\ (trace[k].call \in {"gpiod_set_value", "regulator_disable"}) =>
                   \E j \in 1..(k - 1) : Is(j, "enter_sleep_mode", <<>>)
            /\ (trace[k].call = "regulator_disable") =>
                   \E j \in 1..(k - 1) : IsOk(j, "enter_sleep_mode", <<>>)

\* C4 witness: an Unprepare that asserted reset and disabled both supplies.
C4_Witness ==
    /\ Finished("unprepare")
    /\ \E k \in Positions : Is(k, "gpiod_set_value", <<1>>)
    /\ \E k \in Positions : IsOk(k, "regulator_disable", <<0>>)
    /\ \E k \in Positions : IsOk(k, "regulator_disable", <<1>>)

\* C5: if the enter-sleep command fails during Unprepare, Unprepare returns
\* that failure and the supplies and the reset line are as they were: neither
\* supply is disabled and reset is not asserted.
C5_EnterSleepFailure ==
    \A k \in Positions :
        (Finished("unprepare") /\ IsFail(k, "enter_sleep_mode", <<>>)) =>
            /\ ret = trace[k].ret
            /\ supply = entry.supply
            /\ reset_gpio = entry.reset_gpio
            /\ \A j \in Positions :
                   trace[j].call \notin {"gpiod_set_value", "regulator_disable"}

\* C5 witness: an Unprepare whose enter-sleep failed while the panel was
\* powered and out of reset.
C5_Witness ==
    /\ Finished("unprepare")
    /\ \E k \in Positions : IsFail(k, "enter_sleep_mode", <<>>)
    /\ ret # 0
    /\ reset_gpio = 0
    /\ \A i \in Supplies : supply[i] > 0

\* C6: the supplies are disabled in the reverse of the order in which they
\* are enabled: Prepare enables supply 0 and then supply 1, and a successful
\* Unprepare, after asserting reset, disables supply 1 first and supply 0
\* second.
C6_ReverseDisableOrder ==
    /\ (Finished("prepare") /\ ret = 0) =>
           \E i \in Positions : \E j \in (i + 1)..Len(trace) :
               /\ Is(i, "regulator_enable", <<0>>)
               /\ Is(j, "regulator_enable", <<1>>)
    /\ (Finished("unprepare") /\ ret = 0) =>
           \E g \in Positions : \E i \in (g + 1)..Len(trace) :
               \E j \in (i + 1)..Len(trace) :
                   /\ Is(g, "gpiod_set_value", <<1>>)
                   /\ Is(i, "regulator_disable", <<1>>)
                   /\ Is(j, "regulator_disable", <<0>>)

\* The last four callbacks were prepare, enable, disable, unprepare, the
\* prepare began with both supplies off and reset asserted, and every step of
\* the four succeeded.
CleanCycle ==
    /\ Len(history) = CycleLen
    /\ history[1].op = "prepare" /\ history[1].unpowered
    /\ history[2].op = "enable"
    /\ history[3].op = "disable"
    /\ history[4].op = "unprepare"
    /\ \A k \in 1..CycleLen : history[k].ok

\* Sum of field f for supply i over the callbacks in history.
RECURSIVE Total(_, _, _)
Total(h, f, i) ==
    IF h = <<>> THEN 0 ELSE Head(h)[f][i] + Total(Tail(h), f, i)

\* C7: from the Unpowered state, a prepare, enable, disable, unprepare
\* sequence in which every step succeeds ends in the Unpowered state again
\* (each supply disabled exactly as many times as it was enabled, reset
\* asserted), so that Prepare may be called again and the cycle repeated.
C7_CycleRestoresUnpowered ==
    (pc = "idle" /\ CleanCycle) =>
        /\ Unpowered(supply, reset_gpio)
        /\ \A i \in Supplies :
               /\ Total(history, "enabled", i) = 1
               /\ Total(history, "disabled", i) = 1
        /\ "prepare" \in Allowed(fw)

\* C7 witness: the second of two cycles has just ended cleanly.
C7_Witness ==
    /\ pc = "idle"
    /\ CleanCycle
    /\ calls = 2 * CycleLen
    /\ Unpowered(supply, reset_gpio)

\* C8: with the callbacks invoked in the documented order from the Unpowered
\* state, in every state, the intermediate states inside Prepare and Unprepare
\* included, a de-asserted reset line implies that both supplies are enabled.
\* The reset line is the one the driver acquired; a board without it has no
\* line to de-assert.
C8_ResetImpliesPower ==
    ("reset" \in device.acquired /\ reset_gpio = 0) =>
        \A i \in Supplies : supply[i] > 0

\* C8 witness: inside Unprepare, about to assert reset, with reset still
\* de-asserted.
C8_Witness ==
    /\ pc = "unprepare_reset_assert"
    /\ "reset" \in device.acquired
    /\ reset_gpio = 0
    /\ \A i \in Supplies : supply[i] > 0

\* The DCS commands of the driver.
DcsCalls ==
    {"set_tear_on", "exit_sleep_mode", "enter_sleep_mode", "set_display_on",
     "set_display_off"}

\* This step sends a DCS command.
SendsDcs ==
    \E k \in (Len(trace) + 1)..Len(trace') : trace'[k].call \in DcsCalls

\* C9: with the callbacks invoked in the documented order, every DCS command
\* is sent while the reset line is de-asserted and after the settle delay that
\* followed the most recent de-assertion has fully elapsed.  The reset line is
\* the one the driver acquired.
C9_DcsAfterSettle ==
    [][(SendsDcs /\ "reset" \in device.acquired) =>
           (reset_gpio = 0 /\ waited_us >= SETTLE_MS * 1000)]_vars

\* C9 witness: prepare, enable and disable have succeeded and Unprepare has
\* sent enter-sleep, every one of them after the settle delay.
C9_Witness ==
    /\ op = "unprepare"
    /\ Len(trace) >= 1 /\ Is(1, "enter_sleep_mode", <<>>)
    /\ Len(history) >= 3
    /\ history[Len(history)].op = "disable" /\ history[Len(history)].ok
    /\ history[Len(history) - 1].op = "enable" /\ history[Len(history) - 1].ok
    /\ history[Len(history) - 2].op = "prepare" /\ history[Len(history) - 2].ok
    /\ pc = "unprepare_reset_assert"
    /\ "reset" \in device.acquired
    /\ reset_gpio = 0 /\ waited_us >= SETTLE_MS * 1000

\* C10: Enable sends exactly one DCS command (set-display-on) and Disable
\* exactly one (set-display-off); each returns what the link reported for that
\* command, success or failure; either way the supplies and the reset line are
\* left unchanged.
C10_EnableDisable ==
    /\ Finished("enable") =>
           /\ Len(trace) = 1
           /\ Is(1, "set_display_on", <<>>)
           /\ ret = trace[1].ret
           /\ supply = entry.supply /\ reset_gpio = entry.reset_gpio
    /\ Finished("disable") =>
           /\ Len(trace) = 1
           /\ Is(1, "set_display_off", <<>>)
           /\ ret = trace[1].ret
           /\ supply = entry.supply /\ reset_gpio = entry.reset_gpio

\* C10 witness: a Disable whose command the link refused, on a powered panel.
C10_Witness ==
    /\ Finished("disable")
    /\ Len(trace) = 1
    /\ IsFail(1, "set_display_off", <<>>)
    /\ ret # 0
    /\ \A i \in Supplies : supply[i] > 0

\* C11: every successful DescribeModes call, however often and in whatever
\* panel state, returns count 1 and adds one descriptor with hdisplay 1440,
\* vdisplay 2960, htotal 1716, vtotal 3328, width_mm 70, height_mm 144, marked
\* driver-preferred, all of them with the same field values; it sets the
\* connector's display-info dimensions to 70 x 144; the shared mode constant
\* is never modified.
C11_DescribeModes ==
    /\ samsung_s6e3ha8_mode = ModeConstant
    /\ \A k \in 1..Len(connector.probed_modes) :
           LET m == connector.probed_modes[k]
           IN  /\ m.hdisplay = 1440 /\ m.vdisplay = 2960
               /\ m.htotal = 1716 /\ m.vtotal = 3328
               /\ m.width_mm = 70 /\ m.height_mm = 144
               /\ m.type = {"DRIVER", "PREFERRED"}
               /\ m = connector.probed_modes[1]
    /\ (Finished("get_modes") /\ ret >= 0) =>
           /\ ret = 1
           /\ Len(connector.probed_modes) =
                  Len(entry.connector.probed_modes) + 1
           /\ connector.width_mm = 70 /\ connector.height_mm = 144

\* C11 witness: a second successful DescribeModes, on a panel out of reset.
C11_Witness ==
    /\ Finished("get_modes")
    /\ ret = 1
    /\ Len(connector.probed_modes) = 2
    /\ reset_gpio = 0

\* C18: if duplicating the mode descriptor fails, DescribeModes returns an
\* invalid-argument failure, adds no mode to the mode list and does not write
\* the physical width and height into the display-info record.
C18_DuplicateFailure ==
    (Finished("get_modes") /\ ~AllOk(trace)) =>
        /\ ret = -22
        /\ connector.probed_modes = entry.connector.probed_modes
        /\ connector.width_mm = entry.connector.width_mm
        /\ connector.height_mm = entry.connector.height_mm

\* C18 witness: a failed duplication on a connector never described before.
C18_Witness ==
    /\ Finished("get_modes")
    /\ Len(trace) = 1 /\ IsFail(1, "drm_mode_duplicate", <<>>)
    /\ ret = -22
    /\ connector.width_mm = 0
    /\ connector.probed_modes = <<>>

\* C12: if enabling supply 0 fails during Prepare, Prepare returns that
\* failure and the panel stays as it was (Unpowered if it was): supply 1 is
\* not attempted, the reset line is not written, no DCS command is sent.
C12_Supply0Failure ==
    \A k \in Positions :
        (Finished("prepare") /\ IsFail(k, "regulator_enable", <<0>>)) =>
            /\ ret = trace[k].ret
            /\ Len(trace) = 1
            /\ supply = entry.supply
            /\ reset_gpio = entry.reset_gpio
            /\ Unpowered(entry.supply, entry.reset_gpio) =>
                   Unpowered(supply, reset_gpio)

\* C12 witness: a Prepare on an unpowered panel that failed at supply 0.
C12_Witness ==
    /\ Finished("prepare")
    /\ Len(trace) = 1 /\ IsFail(1, "regulator_enable", <<0>>)
    /\ ret = -5
    /\ Unpowered(supply, reset_gpio)

\* C13: within Prepare the exit-sleep command is sent only after the
\* set-tear-on(vblank) command has succeeded in that invocation; if set-tear-on
\* fails, Prepare returns that failure and exit-sleep is never sent.
C13_TearOnBeforeExitSleep ==
    op = "prepare" =>
        \A k \in Positions :
            /\ Is(k, "exit_sleep_mode", <<>>) =>
                   \E j \in 1..(k - 1) :
                       IsOk(j, "set_tear_on", <<TEAR_MODE_VBLANK>>)
            /\ IsFail(k, "set_tear_on", <<TEAR_MODE_VBLANK>>) =>
                   /\ pc = "idle"
                   /\ ret = trace[k].ret
                   /\ \A j \in Positions : ~Is(j, "exit_sleep_mode", <<>>)

\* C13 witness: a Prepare that failed at set-tear-on.
C13_Witness ==
    /\ Finished("prepare")
    /\ \E k \in Positions : IsFail(k, "set_tear_on", <<TEAR_MODE_VBLANK>>)
    /\ ret # 0
    /\ reset_gpio = 0

\* C14: if Prepare fails at enabling supply 1, a following Unprepare whose
\* enter-sleep succeeds returns the panel to the Unpowered state with each
\* supply disabled exactly as many times as it was enabled: Unprepare never
\* disables a supply that Prepare did not enable.
C14_TeardownAfterSupply1Failure ==
    (/\ Finished("unprepare")
     /\ Len(trace) >= 1 /\ IsOk(1, "enter_sleep_mode", <<>>)
     /\ Len(history) >= 2
     /\ history[Len(history) - 1].op = "prepare"
     /\ history[Len(history) - 1].unpowered
     /\ ~history[Len(history) - 1].ok
     /\ history[Len(history) - 1].enabled[0] = 1
     /\ history[Len(history) - 1].enabled[1] = 0) =>
        /\ Unpowered(supply, reset_gpio)
        /\ \A i \in Supplies :
               history[Len(history)].disabled[i] =
                   history[Len(history) - 1].enabled[i]

\* C15: if set-tear-on or exit-sleep fails during Prepare, Prepare performs no
\* rollback: it returns with both supplies still enabled and the reset line
\* de-asserted, so a Prepare that follows enables each supply a second time
\* with no disable in between.  De-asserted: the last write to the line in
\* this Prepare is the de-assert, and a line the driver acquired is at 0.
C15_NoRollbackAfterDcsFailure ==
    /\ \A k \in Positions :
           (/\ Finished("prepare")
            /\ \/ IsFail(k, "set_tear_on", <<TEAR_MODE_VBLANK>>)
               \/ IsFail(k, "exit_sleep_mode", <<>>)) =>
               /\ ret = trace[k].ret
               /\ \A i \in Supplies : supply[i] = entry.supply[i] + 1
               /\ \E j \in 1..(k - 1) :
                      /\ Is(j, "gpiod_set_value", <<0>>)
                      /\ \A m \in (j + 1)..Len(trace) :
                             trace[m].call # "gpiod_set_value"
               /\ "reset" \in device.acquired => reset_gpio = 0
               /\ \A j \in Positions : trace[j].call # "regulator_disable"
    /\ (/\ op = "prepare" /\ pc = "prepare_reset_assert"
        /\ history # <<>>
        /\ history[Len(history)].op = "prepare"
        /\ ~history[Len(history)].ok
        /\ \A i \in Supplies : history[Len(history)].enabled[i] = 1) =>
           \A i \in Supplies :
               entry.supply[i] >= 1 /\ supply[i] = entry.supply[i] + 1

\* C15 witness: a Prepare has failed at a DCS command and the Prepare that
\* follows has enabled both supplies again.
C15_Witness ==
    /\ op = "prepare" /\ pc = "prepare_reset_assert"
    /\ history # <<>>
    /\ history[Len(history)].op = "prepare"
    /\ ~history[Len(history)].ok
    /\ \A i \in Supplies : history[Len(history)].enabled[i] = 1
    /\ \A i \in Supplies : supply[i] = 2
    /\ "reset" \in device.acquired
    /\ reset_gpio = 0

\* The collaborator calls that can fail, and those whose result the driver
\* checks.
FallibleCalls == {"regulator_enable", "regulator_disable"} \cup DcsCalls

CheckedCalls == {"regulator_enable"} \cup DcsCalls

\* C16: in any single invocation of Prepare, Enable, Disable or Unprepare each
\* fallible step is attempted at most once, no step follows the first failing
\* checked step, and the return value is the outcome of that step (a
\* retry-later outcome included), or success if none failed.
C16_NoRetryFirstFailure ==
    op \in Ops =>
        /\ \A j \in Positions : \A k \in (j + 1)..Len(trace) :
               trace[j].call \in FallibleCalls =>
                   ~(trace[j].call = trace[k].call
                     /\ trace[j].args = trace[k].args)
        /\ \A k \in Positions :
               (trace[k].call \in CheckedCalls /\ trace[k].ret # 0) =>
                   /\ k = Len(trace)
                   /\ pc = "idle"
                   /\ ret = trace[k].ret
        /\ (/\ pc = "idle"
            /\ \A k \in Positions :
                   trace[k].call \in CheckedCalls => trace[k].ret = 0) =>
               ret = 0

\* C16 witness: a Prepare that returned retry-later from its seventh step.
C16_Witness ==
    /\ Finished("prepare")
    /\ Len(trace) = 7
    /\ trace[7].ret = -517
    /\ ret = -517

\* C17: Unprepare returns success if and only if the enter-sleep command
\* succeeded: once it has, reset is asserted and both supply disables are
\* attempted whatever the outcome of the other, and a failing disable does not
\* change the return value.  Asserted: the assert is written, and a line the
\* driver acquired is at 1.
C17_UnprepareBestEffort ==
    Finished("unprepare") =>
        /\ (ret = 0) <=> (Len(trace) >= 1 /\ IsOk(1, "enter_sleep_mode", <<>>))
        /\ (Len(trace) >= 1 /\ IsOk(1, "enter_sleep_mode", <<>>)) =>
               /\ "reset" \in device.acquired => reset_gpio = 1
               /\ \E k \in Positions : Is(k, "gpiod_set_value", <<1>>)
               /\ \A i \in Supplies :
                      \E k \in Positions : Is(k, "regulator_disable", <<i>>)

\* C17 witness: an Unprepare that returned 0 although the disable of supply 0
\* failed, the disable of supply 1 having succeeded after it.
C17_Witness ==
    /\ Finished("unprepare")
    /\ ret = 0
    /\ \E k \in Positions : IsFail(k, "regulator_disable", <<0>>)
    /\ \E k \in Positions : IsOk(k, "regulator_disable", <<1>>)
    /\ "reset" \in device.acquired
    /\ entry.reset_gpio = 0 /\ reset_gpio = 1

\* C19: across any probe/remove sequence on one device: when probe returns,
\* the panel is registered iff the link is attached iff probe returned
\* success (a failed attach unregisters the panel just registered); when
\* remove returns, the link is detached and the panel unregistered, the detach
\* having come before the unregister.
C19_RegistrationFollowsProbe ==
    /\ Finished("probe") =>
           /\ device.registered <=> device.attached
           /\ device.attached <=> (ret = 0)
           /\ \A k \in Positions :
                  IsFail(k, "mipi_dsi_attach", <<>>) =>
                      /\ \E a \in 1..(k - 1) : IsOk(a, "drm_panel_add", <<>>)
                      /\ \E j \in (k + 1)..Len(trace) :
                             Is(j, "drm_panel_remove", <<>>)
    /\ Finished("remove") =>
           /\ ~device.attached
           /\ ~device.registered
           /\ \E i \in Positions : \E j \in (i + 1)..Len(trace) :
                  /\ Is(i, "mipi_dsi_detach", <<>>)
                  /\ Is(j, "drm_panel_remove", <<>>)

\* The acquisitions of probe: the two supplies and the reset line.
IsAcquisition(k) ==
    trace[k].call \in {"devm_regulator_get", "devm_gpiod_get_optional"}

\* C20: if acquiring supply 0, supply 1 or the reset line fails during probe,
\* probe returns exactly that outcome (retry-later verbatim, never retried),
\* no later acquisition is attempted, and the panel is neither registered nor
\* the link attached.
C20_AcquisitionFailure ==
    op = "probe" =>
        /\ \A k \in Positions :
               (IsAcquisition(k) /\ trace[k].ret # 0) =>
                   /\ k = Len(trace)
                   /\ pc = "idle"
                   /\ ret = trace[k].ret
                   /\ ~device.registered
                   /\ ~device.attached
        /\ \A j \in Positions : \A k \in (j + 1)..Len(trace) :
               IsAcquisition(j) =>
                   ~(trace[j].call = trace[k].call
                     /\ trace[j].args = trace[k].args)

====
